---- MODULE Spec2Model ----
(***************************************************************************)
(* CFD hardware bottleneck estimator: hardware_checker.py (flat core       *)
(* count) and ofhc.py (processors x cores per processor).                  *)
(*                                                                         *)
(* One run of estimate_cfd_requirements is modelled as a state machine:    *)
(* the seven estimator calls of the list literal, the sort, and the print  *)
(* loop.  Python numbers are modelled as they are computed: int arithmetic *)
(* is exact, and every float operation ( / and * ) is the IEEE-754         *)
(* binary64 operation, correctly rounded to nearest, ties to even.         *)
(***************************************************************************)
EXTENDS Integers, Sequences, FiniteSets, TLC

(***************************************************************************)
(* Natural numbers of any size: little-endian sequences of limbs in base   *)
(* 2^15, without high-order zero limbs (zero is the empty sequence).  They *)
(* carry the 53-bit significands and the exact products and quotients the  *)
(* float operations round.                                                 *)
(***************************************************************************)
Base == 2^15

LimbBits == 14 + 1

Max(a, b) == IF a >= b THEN a ELSE b

Min(a, b) == IF a <= b THEN a ELSE b

Abs(n) == IF n < 0 THEN 0 - n ELSE n

Limb(a, i) == IF i >= 1 /\ i <= Len(a) THEN a[i] ELSE 0

RECURSIVE BNorm(_)
BNorm(a) ==
  IF a = <<>> THEN a
  ELSE IF a[Len(a)] = 0 THEN BNorm(SubSeq(a, 1, Len(a) - 1)) ELSE a

RECURSIVE BFromInt(_)
BFromInt(n) == IF n = 0 THEN <<>> ELSE <<n % Base>> \o BFromInt(n \div Base)

RECURSIVE BToInt(_)
BToInt(a) == IF a = <<>> THEN 0 ELSE a[1] + Base * BToInt(Tail(a))

RECURSIVE BCmpAt(_, _, _)
BCmpAt(a, b, i) ==
  IF i = 0 THEN 0
  ELSE IF a[i] # b[i] THEN (IF a[i] < b[i] THEN 0 - 1 ELSE 1)
  ELSE BCmpAt(a, b, i - 1)

\* -1, 0 or 1 as a < b, a = b, a > b
BCmp(a, b) ==
  IF Len(a) # Len(b) THEN (IF Len(a) < Len(b) THEN 0 - 1 ELSE 1)
  ELSE BCmpAt(a, b, Len(a))

RECURSIVE BAddAt(_, _, _, _)
BAddAt(a, b, i, c) ==
  IF i > Len(a) /\ i > Len(b)
  THEN (IF c = 0 THEN <<>> ELSE <<c>>)
  ELSE LET s == Limb(a, i) + Limb(b, i) + c
       IN  <<s % Base>> \o BAddAt(a, b, i + 1, s \div Base)

BAdd(a, b) == BAddAt(a, b, 1, 0)

RECURSIVE BSubAt(_, _, _, _)
BSubAt(a, b, i, c) ==
  IF i > Len(a) THEN <<>>
  ELSE LET s == Limb(a, i) - Limb(b, i) - c
       IN  IF s < 0 THEN <<s + Base>> \o BSubAt(a, b, i + 1, 1)
           ELSE <<s>> \o BSubAt(a, b, i + 1, 0)

\* a - b, for a >= b
BSub(a, b) == BNorm(BSubAt(a, b, 1, 0))

RECURSIVE BMulSmallAt(_, _, _, _)
BMulSmallAt(a, k, i, c) ==
  IF i > Len(a) THEN (IF c = 0 THEN <<>> ELSE <<c>>)
  ELSE LET p == a[i] * k + c
       IN  <<p % Base>> \o BMulSmallAt(a, k, i + 1, p \div Base)

\* a * k, for 0 <= k < Base
BMulSmall(a, k) == IF k = 0 THEN <<>> ELSE BMulSmallAt(a, k, 1, 0)

RECURSIVE Zeros(_)
Zeros(n) == IF n <= 0 THEN <<>> ELSE <<0>> \o Zeros(n - 1)

BShlLimbs(a, n) == IF a = <<>> THEN a ELSE Zeros(n) \o a

RECURSIVE BMulAt(_, _, _)
BMulAt(a, b, i) ==
  IF i > Len(b) THEN <<>>
  ELSE BAdd(BShlLimbs(BMulSmall(a, b[i]), i - 1), BMulAt(a, b, i + 1))

BMul(a, b) == BMulAt(a, b, 1)

\* a * 2^k
BShl(a, k) == BShlLimbs(BMulSmall(a, 2^(k % LimbBits)), k \div LimbBits)

RECURSIVE BDivSmallAt(_, _, _, _)
BDivSmallAt(a, d, i, r) ==
  IF i = 0 THEN <<>>
  ELSE LET t == r * Base + a[i]
       IN  BDivSmallAt(a, d, i - 1, t % d) \o <<t \div d>>

\* floor(a / d), for 0 < d < Base
BDivSmall(a, d) == BNorm(BDivSmallAt(a, d, Len(a), 0))

RECURSIVE BModSmallAt(_, _, _, _)
BModSmallAt(a, d, i, r) ==
  IF i = 0 THEN r ELSE BModSmallAt(a, d, i - 1, (r * Base + a[i]) % d)

BModSmall(a, d) == BModSmallAt(a, d, Len(a), 0)

\* floor(a / 2^k)
BShr(a, k) ==
  LET n == k \div LimbBits
  IN  IF n >= Len(a) THEN <<>>
      ELSE BDivSmall(SubSeq(a, n + 1, Len(a)), 2^(k % LimbBits))

RECURSIVE IntBitLen(_)
IntBitLen(n) == IF n = 0 THEN 0 ELSE 1 + IntBitLen(n \div 2)

BBitLen(a) ==
  IF a = <<>> THEN 0 ELSE LimbBits * (Len(a) - 1) + IntBitLen(a[Len(a)])

BIsOdd(a) == a # <<>> /\ a[1] % 2 = 1

(***************************************************************************)
(* Long division (Knuth's algorithm D): the divisor is scaled so that its  *)
(* top limb is at least Base/2, and each quotient limb is estimated from   *)
(* the top two limbs of the running remainder and corrected downwards.     *)
(***************************************************************************)
RECURSIVE QFix(_, _, _)
QFix(b, t, q) == IF BCmp(BMulSmall(b, q), t) > 0 THEN QFix(b, t, q - 1) ELSE q

QHat(b, t) ==
  Min(Base - 1, (Limb(t, Len(b) + 1) * Base + Limb(t, Len(b))) \div b[Len(b)])

RECURSIVE BDivAt(_, _, _, _, _)
RECURSIVE BDivStep(_, _, _, _, _, _)
\* the limbs a[i..1] are brought down one by one on the running remainder r;
\* quot holds the quotient limbs found so far (little-endian).
\* Yields <<quotient, remainder # 0>>.
BDivAt(a, b, i, r, quot) ==
  IF i = 0 THEN <<BNorm(quot), r # <<>> >>
  ELSE BDivStep(a, b, i, quot, BNorm(<<a[i]>> \o r), QFix(b, BNorm(<<a[i]>> \o r), QHat(b, BNorm(<<a[i]>> \o r))))

BDivStep(a, b, i, quot, t, q) ==
  BDivAt(a, b, i - 1, BSub(t, BMulSmall(b, q)), <<q>> \o quot)

BDivScaled(a, b) == BDivAt(a, b, Len(a), <<>>, <<>>)

\* <<floor(a / b), a mod b # 0>>, for b > 0
BDivMod(a, b) ==
  BDivScaled(BShl(a, LimbBits - IntBitLen(b[Len(b)])),
             BShl(b, LimbBits - IntBitLen(b[Len(b)])))

(***************************************************************************)
(* Python floats: IEEE-754 binary64.  A float is zero, or has a sign, a    *)
(* significand m of exactly Precision bits and an exponent e, and stands   *)
(* for (-1)^neg * m * 2^e, so that equal numbers are equal records.  The   *)
(* inputs enumerated keep every result far inside the normal range: no     *)
(* overflow, no subnormal.  The sign of a zero is not kept: no operation   *)
(* of the program tells -0.0 from 0.0 (comparisons, round, fmt's val == 0).*)
(***************************************************************************)
Precision == 53

Zero == [neg |-> FALSE, m |-> <<>>, e |-> 0]

IsZero(x) == x.m = <<>>

\* The rounding of (-1)^neg * (n / d) * 2^e to nearest, ties to even, for
\* n, d > 0, in steps: the quotient q = floor(n * 2^k / d) is taken with at
\* least two bits more than the significand holds, its low `drop` bits are
\* cut, and the significand goes up by one when the part cut (with the
\* division's remainder) is more than half a unit, or exactly half and the
\* significand is odd.
Renormalised(neg, e, m) ==
  IF BBitLen(m) > Precision
  THEN [neg |-> neg, m |-> BShr(m, 1), e |-> e + 1]
  ELSE [neg |-> neg, m |-> m, e |-> e]

RoundedUp(neg, e, inexact, mant, c) ==
  Renormalised(neg, e,
               IF c > 0 \/ (c = 0 /\ (inexact \/ BIsOdd(mant)))
               THEN BAdd(mant, <<1>>) ELSE mant)

CutLow(neg, e, q, inexact, drop, mant) ==
  RoundedUp(neg, e + drop, inexact, mant,
            BCmp(BSub(q, BShl(mant, drop)), BShl(<<1>>, drop - 1)))

RoundQuotient(neg, e, q, inexact) ==
  CutLow(neg, e, q, inexact, BBitLen(q) - Precision, BShr(q, BBitLen(q) - Precision))

RoundPair(neg, e, qr) == RoundQuotient(neg, e, qr[1], qr[2])

RoundScaled(neg, n, d, e, k) ==
  RoundPair(neg, e - k,
            IF d = <<1>> THEN <<BShl(n, k), FALSE>> ELSE BDivMod(BShl(n, k), d))

RoundRat(neg, n, d, e) ==
  RoundScaled(neg, n, d, e, Max(0, Precision + 2 + BBitLen(d) - BBitLen(n)))

\* float(n) of a Python int, and the int / int true division, which CPython
\* rounds correctly from the exact quotient
FromInt(n) == IF n = 0 THEN Zero ELSE RoundRat(n < 0, BFromInt(Abs(n)), <<1>>, 0)

IntTrueDiv(a, b) ==
  IF a = 0 THEN Zero
  ELSE RoundRat((a < 0) # (b < 0), BFromInt(Abs(a)), BFromInt(Abs(b)), 0)

\* a decimal literal with one digit after the point (2.2 is Tenths(22))
Tenths(t) == IntTrueDiv(t, 10)

\* x / y and x * y of two floats; y is not zero in FDiv
FDiv(x, y) ==
  IF IsZero(x) THEN Zero ELSE RoundRat(x.neg # y.neg, x.m, y.m, x.e - y.e)

FMul(x, y) ==
  IF IsZero(x) \/ IsZero(y) THEN Zero
  ELSE RoundRat(x.neg # y.neg, BMul(x.m, y.m), <<1>>, x.e + y.e)

\* |x| < |y| for non-zero floats: the significands have the same length
MagLess(x, y) == x.e < y.e \/ (x.e = y.e /\ BCmp(x.m, y.m) < 0)

\* x < y
FLess(x, y) ==
  IF IsZero(x) THEN ~IsZero(y) /\ ~y.neg
  ELSE IF IsZero(y) THEN x.neg
  ELSE IF x.neg # y.neg THEN x.neg
  ELSE IF x.neg THEN MagLess(y, x) ELSE MagLess(x, y)

\* floor(|x|) and the integer nearest to |x| * 10^d (ties to even), as naturals
FloorAbs(x) ==
  IF IsZero(x) THEN <<>>
  ELSE IF x.e >= 0 THEN BShl(x.m, x.e) ELSE BShr(x.m, 0 - x.e)

RECURSIVE BPow10(_)
BPow10(d) == IF d = 0 THEN <<1>> ELSE BMulSmall(BPow10(d - 1), 10)

HalfEven(q, c) == IF c > 0 \/ (c = 0 /\ BIsOdd(q)) THEN BAdd(q, <<1>>) ELSE q

\* n / 2^k rounded to the nearest integer, ties to even; q is floor(n / 2^k)
RoundShrQ(n, k, q) ==
  HalfEven(q, BCmp(BSub(n, BShl(q, k)), BShl(<<1>>, k - 1)))

RoundShr(n, k) == RoundShrQ(n, k, BShr(n, k))

RoundAbsScaled(x, d) ==
  IF IsZero(x) THEN <<>>
  ELSE IF x.e >= 0 THEN BShl(BMul(x.m, BPow10(d)), x.e)
  ELSE RoundShr(BMul(x.m, BPow10(d)), 0 - x.e)

(***************************************************************************)
(* Text: decimal digits, Python's "," grouping and "<" padding.            *)
(***************************************************************************)
Digit(k) == <<"0", "1", "2", "3", "4", "5", "6", "7", "8", "9">>[k + 1]

RECURSIVE DecStr(_)
DecStr(a) ==
  IF BCmp(a, <<10>>) < 0 THEN Digit(BToInt(a))
  ELSE DecStr(BDivSmall(a, 10)) \o Digit(BModSmall(a, 10))

\* the low d decimal digits of a, zero-padded
RECURSIVE DecFrac(_, _)
DecFrac(a, d) ==
  IF d = 0 THEN "" ELSE DecFrac(BDivSmall(a, 10), d - 1) \o Digit(BModSmall(a, 10))

\* a with a comma before every group of three digits
RECURSIVE Grouped(_)
Grouped(a) ==
  IF BCmp(a, BFromInt(1000)) < 0 THEN DecStr(a)
  ELSE Grouped(BDivSmall(a, 1000)) \o "," \o DecFrac(BFromInt(BModSmall(a, 1000)), 3)

RECURSIVE Spaces(_)
Spaces(n) == IF n <= 0 THEN "" ELSE " " \o Spaces(n - 1)

\* f"{s:<w}"
PadLeft(s, w) == s \o Spaces(w - Len(s))

\* str(round(x)) of a float
SignedStr(neg, r) == IF r = <<>> THEN "0" ELSE (IF neg THEN "-" ELSE "") \o DecStr(r)

RoundStr(x) == SignedStr(~IsZero(x) /\ x.neg, RoundAbsScaled(x, 0))

\* fmt(val) of checked_requirements: about three significant digits.
\* Fixed(neg, r, digits) is f"{val:,.{digits}f}" for |val| * 10^digits
\* rounding to r.
Fixed(neg, r, digits) ==
  (IF neg THEN "-" ELSE "")
    \o Grouped(BDivSmall(r, 10^digits))
    \o (IF digits > 0 THEN "." \o DecFrac(r, digits) ELSE "")

FmtDigits(val, digits) == Fixed(val.neg, RoundAbsScaled(val, digits), digits)

fmt(val) ==
  IF IsZero(val) THEN "0"
  ELSE FmtDigits(val, Max(3 - Len(DecStr(FloorAbs(val))), 0))

(***************************************************************************)
(* The program.  A call either returns a value or raises; an estimator     *)
(* call is described by what it printed, the call of checked_requirements  *)
(* it made (none when it raised before it) and how it ended.               *)
(***************************************************************************)
One == FromInt(1)

Return(v) == [ok |-> TRUE, value |-> v]

Raise(exc) == [ok |-> FALSE, exc |-> exc]

\* the two marks of checked_requirements, in ASCII: the ballot x of an
\* insufficient resource and the check mark of a sufficient one
MarkInsufficient == "[x]"

MarkSufficient == "[v]"

\* the tuple checked_requirements returns, once ratio is computed
Checked(title, numerator, denominator, ratio, mark) ==
  [ratio      |-> ratio,
   ratio_fmt  |-> RoundStr(FMul(ratio, FromInt(100))) \o " %",
   title      |-> title,
   actual_fmt |-> fmt(numerator),
   target_fmt |-> fmt(denominator),
   mark       |-> mark]

\* Mark with the comparison of line 89 written <= : a ratio of exactly 1 fails
Mark_le(ratio) == IF ~FLess(One, ratio) THEN MarkInsufficient ELSE MarkSufficient

Mark(ratio) == IF FLess(ratio, One) THEN MarkInsufficient ELSE MarkSufficient

WithRatio(title, numerator, denominator, ratio) ==
  Checked(title, numerator, denominator, ratio, Mark(ratio))

checked_requirements(title, numerator, denominator) ==
  IF IsZero(denominator) THEN Raise("ZeroDivisionError")
  ELSE Return(WithRatio(title, numerator, denominator, FDiv(numerator, denominator)))

\* an estimator's last statement: return checked_requirements(title, n, d)
Scored(title, n, d) ==
  [printed |-> <<>>,
   call    |-> <<[title |-> title, numerator |-> n, denominator |-> d]>>,
   ret     |-> checked_requirements(title, n, d)]

\* a division by zero in the estimator's own body
Failed == [printed |-> <<>>, call |-> <<>>, ret |-> Raise("ZeroDivisionError")]

AdvisoryPrefix == "Do not use all cores for computing. Limit the simulation to "

Advisory(limit) == AdvisoryPrefix \o RoundStr(limit)

\* the body shared by the two variants of estimate_bottleneck_cpu_count,
\* which differ in the total core count they are given
\* cpu_count_advise reporting a core count: num_cpu_cores / min_ratio
cpu_count_advise_cores(num_cells, total_cores, min_ratio_cpu_count) ==
  [Scored("CPU Cores", FromInt(total_cores), IntTrueDiv(num_cells, 100000))
     EXCEPT !.printed =
       IF FLess(One, min_ratio_cpu_count)
       THEN <<Advisory(FDiv(FromInt(total_cores), min_ratio_cpu_count))>>
       ELSE <<>>]

\* lines 24-28: the advisory, then the scoring
cpu_count_advise(num_cells, total_cores, min_ratio_cpu_count) ==
  [Scored("CPU Cores", FromInt(total_cores), IntTrueDiv(num_cells, 100000))
     EXCEPT !.printed =
       IF FLess(One, min_ratio_cpu_count)
       THEN <<Advisory(FDiv(FromInt(num_cells), min_ratio_cpu_count))>>
       ELSE <<>>]

\* line 23: min_ratio_cpu_count = min_cells_per_core / actual_cells_per_core
cpu_count_ratio(num_cells, total_cores, actual_cells_per_core) ==
  IF IsZero(actual_cells_per_core) THEN Failed
  ELSE cpu_count_advise(num_cells, total_cores,
                        FDiv(FromInt(50000), actual_cells_per_core))

\* line 22: actual_cells_per_core = num_cells / total_cores
cpu_count(num_cells, total_cores) ==
  IF total_cores = 0 THEN Failed
  ELSE cpu_count_ratio(num_cells, total_cores, IntTrueDiv(num_cells, total_cores))

hw_estimate_bottleneck_cpu_count(num_cells, num_cpu_cores) ==
  cpu_count(num_cells, num_cpu_cores)

ofhc_estimate_bottleneck_cpu_count(num_cells, num_processors, num_cpu_cores) ==
  cpu_count(num_cells, num_cpu_cores * num_processors)

estimate_bottleneck_cpu_speed(cpu_speed_ghz) ==
  Scored("CPU Clock-Speed (GHZ)", cpu_speed_ghz, FromInt(3))

hw_estimate_bottleneck_cpu_l3_cache(num_cores, cpu_l3_cache_capacity_mb) ==
  Scored("CPU L3 Cache (MB)", FromInt(cpu_l3_cache_capacity_mb), FromInt(num_cores * 2))

ofhc_estimate_bottleneck_cpu_l3_cache(num_cpu_cores, num_cores, cpu_l3_cache_capacity_mb) ==
  Scored("CPU L3 Cache (MB)", FromInt(cpu_l3_cache_capacity_mb),
         FromInt(num_cpu_cores * num_cores * 2))

estimate_bottleneck_ram_capacity(num_cells, actual_ram_capacity_gb) ==
  Scored("RAM Capacity (GB)", FromInt(actual_ram_capacity_gb),
         FMul(IntTrueDiv(num_cells, 1000000), FromInt(2)))

hw_estimate_bottleneck_ram_channels(num_cores, num_ram_channels) ==
  IF num_ram_channels = 0 THEN Failed
  ELSE Scored("RAM Channels", FromInt(4), IntTrueDiv(num_cores, num_ram_channels))

ofhc_estimate_bottleneck_ram_channels(num_processors, num_cores, num_ram_channels) ==
  Scored("RAM Channels", FromInt(num_ram_channels),
         IntTrueDiv(num_cores * num_processors, 4))

\* ram_speed_mts * 1e6 * bytes_per_transfer * num_ram_channels / 1e9
theoretical_bandwidth_gbs(ram_speed_mts, num_ram_channels) ==
  FDiv(FMul(FMul(FMul(FromInt(ram_speed_mts), FromInt(1000000)), FromInt(8)),
            FromInt(num_ram_channels)),
       FromInt(1000000000))

\* ram_bandwidth without the bandwidth_efficiency factor
ram_bandwidth_theoretical(total_cores, ram_speed_mts, num_ram_channels) ==
  Scored("RAM Bandwidth (GB/s)",
         theoretical_bandwidth_gbs(ram_speed_mts, num_ram_channels),
         FromInt(total_cores * 2))

\* the body shared by the two variants of estimate_bottleneck_ram_bandwidth
ram_bandwidth(total_cores, ram_speed_mts, num_ram_channels) ==
  Scored("RAM Bandwidth (GB/s)",
         FMul(theoretical_bandwidth_gbs(ram_speed_mts, num_ram_channels), Tenths(7)),
         FromInt(total_cores * 2))

hw_estimate_bottleneck_ram_bandwidth(num_cpu_cores, ram_speed_mts, num_ram_channels) ==
  ram_bandwidth(num_cpu_cores, ram_speed_mts, num_ram_channels)

ofhc_estimate_bottleneck_ram_bandwidth(num_processors, num_cpu_cores, ram_speed_mts, num_ram_channels) ==
  ram_bandwidth(num_processors * num_cpu_cores, ram_speed_mts, num_ram_channels)

estimate_gpu_vram_recommendations(num_cells, gpu_vram_gb) ==
  Scored("Virtual RAM (GB)", FromInt(gpu_vram_gb),
         FMul(IntTrueDiv(num_cells, 1000000), IntTrueDiv(1, 12)))

\* hw_functions with the CPU-core estimator moved up, before the RAM-channel one
hw_functions_cores_first(a, k) ==
  CASE k = 1 -> estimate_bottleneck_ram_capacity(a.num_cells, a.ram_capacity_gb)
    [] k = 2 -> hw_estimate_bottleneck_cpu_count(a.num_cells, a.num_cpu_cores)
    [] k = 3 -> hw_estimate_bottleneck_ram_channels(a.num_cpu_cores, a.num_ram_channels)
    [] k = 4 -> hw_estimate_bottleneck_ram_bandwidth(a.num_cpu_cores, a.ram_speed_mts,
                                                     a.num_ram_channels)
    [] k = 5 -> estimate_bottleneck_cpu_speed(a.cpu_speed_ghz)
    [] k = 6 -> hw_estimate_bottleneck_cpu_l3_cache(a.num_cpu_cores,
                                                    a.cpu_l3_cache_capacity_mb)
    [] k = 7 -> estimate_gpu_vram_recommendations(a.num_cells, a.gpu_vram_gb)

\* the k-th element of the list literal of estimate_cfd_requirements
hw_functions(a, k) ==
  CASE k = 1 -> estimate_bottleneck_ram_capacity(a.num_cells, a.ram_capacity_gb)
    [] k = 2 -> hw_estimate_bottleneck_ram_channels(a.num_cpu_cores, a.num_ram_channels)
    [] k = 3 -> hw_estimate_bottleneck_ram_bandwidth(a.num_cpu_cores, a.ram_speed_mts,
                                                     a.num_ram_channels)
    [] k = 4 -> hw_estimate_bottleneck_cpu_count(a.num_cells, a.num_cpu_cores)
    [] k = 5 -> estimate_bottleneck_cpu_speed(a.cpu_speed_ghz)
    [] k = 6 -> hw_estimate_bottleneck_cpu_l3_cache(a.num_cpu_cores,
                                                    a.cpu_l3_cache_capacity_mb)
    [] k = 7 -> estimate_gpu_vram_recommendations(a.num_cells, a.gpu_vram_gb)

ofhc_functions(a, k) ==
  CASE k = 1 -> estimate_bottleneck_ram_capacity(a.num_cells, a.ram_capacity_gb)
    [] k = 2 -> ofhc_estimate_bottleneck_ram_channels(a.num_processors, a.num_cpu_cores,
                                                      a.num_ram_channels)
    [] k = 3 -> ofhc_estimate_bottleneck_ram_bandwidth(a.num_processors, a.num_cpu_cores,
                                                       a.ram_speed_mts, a.num_ram_channels)
    [] k = 4 -> ofhc_estimate_bottleneck_cpu_count(a.num_cells, a.num_processors,
                                                   a.num_cpu_cores)
    [] k = 5 -> estimate_bottleneck_cpu_speed(a.cpu_speed_ghz)
    [] k = 6 -> ofhc_estimate_bottleneck_cpu_l3_cache(a.num_processors, a.num_cpu_cores,
                                                      a.cpu_l3_cache_capacity_mb)
    [] k = 7 -> estimate_gpu_vram_recommendations(a.num_cells, a.gpu_vram_gb)

NumEstimators == 7

Element(v, a, k) ==
  IF v = "hardware_checker" THEN hw_functions(a, k) ELSE ofhc_functions(a, k)

\* sorted(functions, key=lambda f: f[0]): a stable sort, ascending by ratio.
\* Each element goes in before the first one already placed that is greater.
\* InsertByRatio for an unstable sort: the element goes in before its equals
RECURSIVE InsertBeforeEqual(_, _)
InsertBeforeEqual(f, s) ==
  IF s = <<>> THEN <<f>>
  ELSE IF ~FLess(s[1].ratio, f.ratio) THEN <<f>> \o s
  ELSE <<s[1]>> \o InsertBeforeEqual(f, Tail(s))

\* InsertByRatio for a descending sort (reverse=True)
RECURSIVE InsertDescending(_, _)
InsertDescending(f, s) ==
  IF s = <<>> THEN <<f>>
  ELSE IF FLess(s[1].ratio, f.ratio) THEN <<f>> \o s
  ELSE <<s[1]>> \o InsertDescending(f, Tail(s))

RECURSIVE InsertByRatio(_, _)
InsertByRatio(f, s) ==
  IF s = <<>> THEN <<f>>
  ELSE IF FLess(f.ratio, s[1].ratio) THEN <<f>> \o s
  ELSE <<s[1]>> \o InsertByRatio(f, Tail(s))

RECURSIVE sorted(_)
sorted(fs) ==
  IF fs = <<>> THEN <<>>
  ELSE InsertByRatio(fs[Len(fs)], sorted(SubSeq(fs, 1, Len(fs) - 1)))

\* the line the print loop writes for one element
Line(f) ==
  PadLeft(f.title, 22) \o " Actual: " \o PadLeft(f.actual_fmt, 10)
    \o " Target: " \o PadLeft(f.target_fmt, 10)
    \o " " \o PadLeft(f.ratio_fmt, 5) \o " " \o PadLeft(f.mark, 5)

(***************************************************************************)
(* The arguments of a run.  num_processors is 1 for hardware_checker.py,   *)
(* which has no such parameter.  cpu_speed_ghz is a float, written with    *)
(* one decimal; the other arguments are ints.                               *)
(***************************************************************************)
MaxProcessors == 2

Variants == {"hardware_checker", "ofhc"}

NumCellsValues == {0 - 10000000, 0, 500000, 10000000}

RamCapacityValues == {0, 64}

NumRamChannelsValues == {0, 4, 11}

RamSpeedValues == {2700}

NumCpuCoresValues == {0, 3, 20}

CpuSpeedTenths == {22, 30}

L3CacheValues == {64, 88}

GpuVramValues == {0, 8}

Args(cells, ram, channels, speed, procs, cores, ghz10, cache, vram) ==
  [num_cells                |-> cells,
   ram_capacity_gb          |-> ram,
   num_ram_channels         |-> channels,
   ram_speed_mts            |-> speed,
   num_processors           |-> procs,
   num_cpu_cores            |-> cores,
   cpu_speed_ghz            |-> Tenths(ghz10),
   cpu_l3_cache_capacity_mb |-> cache,
   gpu_vram_gb              |-> vram]

\* the module-level constants each script passes under __main__
Defaults(v) ==
  IF v = "hardware_checker"
  THEN Args(10000000, 64, 4, 2700, 1, 20, 20, 64, 0)
  ELSE Args(10000000, 64, 4, 2133, 2, 10, 22, 25, 0)

Profiles(v) ==
  {Args(cells, ram, channels, speed, procs, cores, ghz10, cache, vram) :
     cells \in NumCellsValues, ram \in RamCapacityValues,
     channels \in NumRamChannelsValues, speed \in RamSpeedValues,
     procs \in (IF v = "ofhc" THEN 1..MaxProcessors ELSE {1}),
     cores \in NumCpuCoresValues, ghz10 \in CpuSpeedTenths,
     cache \in L3CacheValues, vram \in GpuVramValues}
  \cup {Defaults(v)}

(***************************************************************************)
(* One call of estimate_cfd_requirements(args) of script variant.          *)
(*   pc        where the call is: building the list literal ("estimate",   *)
(*             element i next), the sort, the print loop (element i next), *)
(*             returned ("done") or left by an exception ("raised")        *)
(*   results   the list literal as built so far                            *)
(*   functions the sorted list, once line 124 has run                      *)
(*   stdout    the lines printed so far                                    *)
(*   calls     the calls of checked_requirements so far                    *)
(*   raised    the exception that ended the call, or "" for none           *)
(***************************************************************************)
VARIABLES variant, args, pc, i, results, functions, stdout, calls, raised

vars == <<variant, args, pc, i, results, functions, stdout, calls, raised>>

Init ==
  /\ variant \in Variants
  /\ args \in Profiles(variant)
  /\ pc = "estimate"
  /\ i = 1
  /\ results = <<>>
  /\ functions = <<>>
  /\ stdout = <<>>
  /\ calls = <<>>
  /\ raised = ""

\* the next element of the list literal is evaluated: an estimator runs
Estimate ==
  /\ pc = "estimate"
  /\ \E r \in {Element(variant, args, i)} :
         /\ stdout' = stdout \o r.printed
         /\ calls' = calls \o r.call
         /\ IF r.ret.ok
            THEN /\ results' = Append(results, r.ret.value)
                 /\ raised' = raised
                 /\ i' = IF i = NumEstimators THEN 1 ELSE i + 1
                 /\ pc' = IF i = NumEstimators THEN "sort" ELSE "estimate"
            ELSE /\ results' = results
                 /\ raised' = r.ret.exc
                 /\ i' = i
                 /\ pc' = "raised"
  /\ UNCHANGED <<variant, args, functions>>

Sort ==
  /\ pc = "sort"
  /\ functions' = sorted(results)
  /\ pc' = "print"
  /\ UNCHANGED <<variant, args, i, results, stdout, calls, raised>>

PrintLine ==
  /\ pc = "print"
  /\ stdout' = Append(stdout, Line(functions[i]))
  /\ i' = IF i = Len(functions) THEN i ELSE i + 1
  /\ pc' = IF i = Len(functions) THEN "done" ELSE "print"
  /\ UNCHANGED <<variant, args, results, functions, calls, raised>>

Next == Estimate \/ Sort \/ PrintLine

Spec == Init /\ [][Next]_vars

(***************************************************************************)
(* Exact arithmetic for the properties: a float x = (-1)^neg * m * 2^e is  *)
(* compared with a rational (-1)^neg * p / q by cross-multiplication of    *)
(* naturals, never by another float operation.                             *)
(***************************************************************************)
BDist(a, b) == IF BCmp(a, b) >= 0 THEN BSub(a, b) ELSE BSub(b, a)

\* |x| * q and p, on the common scale 2^min(e, 0)
ScaledLeft(x, q) == BMul(BShl(x.m, Max(x.e, 0)), q)

ScaledRight(x, p) == BShl(p, Max(0 - x.e, 0))

\* x is exactly (-1)^neg * p / q
EqualsRat(x, neg, p, q) ==
  IF p = <<>> THEN IsZero(x)
  ELSE /\ ~IsZero(x)
       /\ x.neg = neg
       /\ ScaledLeft(x, q) = ScaledRight(x, p)

\* x is (-1)^neg * p / q within floating-point tolerance: a relative error
\* of at most 2^-(Precision - 3), eight units in the last place
ToleranceBits == Precision - 3

ApproxRat(x, neg, p, q) ==
  IF p = <<>> THEN IsZero(x)
  ELSE /\ ~IsZero(x)
       /\ x.neg = neg
       /\ BCmp(BShl(BDist(ScaledLeft(x, q), ScaledRight(x, p)), ToleranceBits),
               ScaledRight(x, p)) <= 0

EqualsInt(x, n) == EqualsRat(x, n < 0, BFromInt(Abs(n)), <<1>>)

\* x is n / d for ints n and d > 0, within tolerance
ApproxFrac(x, n, d) == ApproxRat(x, n < 0, BFromInt(Abs(n)), BFromInt(d))

\* quot is the float nearest to num / den (den # 0): the error
\* |quot * den - num| is at most half a unit in quot's last place times |den|
NearestQuotient(quot, num, den) ==
  IF IsZero(num) THEN IsZero(quot)
  ELSE /\ ~IsZero(quot)
       /\ quot.neg = (num.neg # den.neg)
       /\ LET s == Min(quot.e + den.e, num.e + 1)
          IN  BCmp(BDist(BShl(BMul(quot.m, den.m), quot.e + den.e + 1 - s),
                         BShl(num.m, num.e + 1 - s)),
                   BShl(den.m, quot.e + den.e - s)) <= 0

\* the exact quotient num / den is below 1
QuotientBelowOne(num, den) ==
  \/ IsZero(num)
  \/ num.neg # den.neg
  \/ MagLess(num, den)

\* total core count: cores per processor x processors in ofhc.py, the flat
\* count in hardware_checker.py
TotalCores == IF variant = "ofhc" THEN args.num_cpu_cores * args.num_processors
              ELSE args.num_cpu_cores

\* the titles, in the order of the list literal
InputOrder ==
  <<"RAM Capacity (GB)", "RAM Channels", "RAM Bandwidth (GB/s)", "CPU Cores",
    "CPU Clock-Speed (GHZ)", "CPU L3 Cache (MB)", "Virtual RAM (GB)">>

InputIndex(title) == CHOOSE k \in 1..NumEstimators : InputOrder[k] = title

\* the lines printed by the print loop: the last Len(functions) lines of stdout
ResultLines == SubSeq(stdout, Len(stdout) - Len(functions) + 1, Len(stdout))

\* the lines printed before the print loop: advisories
AdvisoryLines ==
  IF pc \in {"estimate", "sort", "raised"} THEN stdout
  ELSE SubSeq(stdout, 1, Len(stdout) - (IF pc = "done" THEN Len(functions) ELSE i - 1))

(***************************************************************************)
(* C1: when all seven estimators succeed, the result lines printed are the *)
(* lines of a permutation of the seven estimator results that is           *)
(* non-decreasing in ratio, and results of equal ratio keep the order of   *)
(* the list literal (RAM Capacity, RAM Channels, RAM Bandwidth, CPU Cores, *)
(* CPU Clock-Speed, CPU L3 Cache, GPU VRAM).                               *)
(***************************************************************************)
C1_RankedStableAscending ==
  pc = "done" =>
    /\ Len(results) = NumEstimators
    /\ Len(functions) = NumEstimators
    /\ \A k \in 1..NumEstimators : results[k].title = InputOrder[k]
    /\ \A k \in 1..NumEstimators :
         Cardinality({j \in 1..NumEstimators : functions[j] = results[k]}) = 1
    /\ ResultLines = [j \in 1..NumEstimators |-> Line(functions[j])]
    /\ \A j \in 1..(NumEstimators - 1) :
         ~FLess(functions[j + 1].ratio, functions[j].ratio)
    /\ \A j, k \in 1..NumEstimators :
         (j < k /\ functions[j].ratio = functions[k].ratio)
           => InputIndex(functions[j].title) < InputIndex(functions[k].title)

\* a finished run in which two results have the same ratio
C1_Witness ==
  /\ pc = "done"
  /\ \E j \in 1..(NumEstimators - 1) : functions[j].ratio = functions[j + 1].ratio

(***************************************************************************)
(* C2: for every actual and every non-zero required value,                 *)
(* checked_requirements returns ratio = actual / required (the nearest     *)
(* float), with the sufficient mark exactly when ratio >= 1 and the        *)
(* insufficient mark exactly when ratio < 1; ratio and mark are decided by *)
(* the two values alone.                                                   *)
(***************************************************************************)
C2_RatioAndVerdict ==
  \A k \in 1..Len(results) :
    /\ calls[k].title = results[k].title
    /\ ~IsZero(calls[k].denominator)
    /\ NearestQuotient(results[k].ratio, calls[k].numerator, calls[k].denominator)
    /\ results[k].mark \in {MarkSufficient, MarkInsufficient}
    /\ results[k].mark = MarkInsufficient
         <=> QuotientBelowOne(calls[k].numerator, calls[k].denominator)
    /\ results[k].mark = MarkInsufficient
         <=> (IsZero(results[k].ratio) \/ results[k].ratio.neg
                \/ results[k].ratio.e + Precision <= 0)

\* a result whose ratio is exactly 1, marked sufficient, beside one marked
\* insufficient
C2_Witness ==
  /\ \E k \in 1..Len(results) :
       results[k].ratio = One /\ results[k].mark = MarkSufficient
  /\ \E k \in 1..Len(results) : results[k].mark = MarkInsufficient

(***************************************************************************)
(* C3: in both variants the (actual, required) pair passed to the scorer   *)
(* is: CPU cores (total_cores, cells / 100000); CPU clock (ghz, 3.0); L3   *)
(* cache (cache_mb, total_cores * 2); RAM capacity (ram_gb,                *)
(* (cells / 1000000) * 2); RAM bandwidth (channels * speed_mts * 1e6 * 8   *)
(* / 1e9 * 0.7, total_cores * 2); GPU VRAM (vram_gb,                        *)
(* (cells / 1000000) / 12).  Integers are passed exactly, the quotients    *)
(* and products within floating-point tolerance.                           *)
(***************************************************************************)
PairAsClaimed(c) ==
  CASE c.title = "CPU Cores" ->
         /\ EqualsInt(c.numerator, TotalCores)
         /\ ApproxFrac(c.denominator, args.num_cells, 100000)
    [] c.title = "CPU Clock-Speed (GHZ)" ->
         /\ c.numerator = args.cpu_speed_ghz
         /\ EqualsInt(c.denominator, 3)
    [] c.title = "CPU L3 Cache (MB)" ->
         /\ EqualsInt(c.numerator, args.cpu_l3_cache_capacity_mb)
         /\ EqualsInt(c.denominator, TotalCores * 2)
    [] c.title = "RAM Capacity (GB)" ->
         /\ EqualsInt(c.numerator, args.ram_capacity_gb)
         /\ ApproxFrac(c.denominator, args.num_cells, 500000)
    [] c.title = "RAM Bandwidth (GB/s)" ->
         /\ ApproxFrac(c.numerator, args.num_ram_channels * args.ram_speed_mts * 56, 10000)
         /\ EqualsInt(c.denominator, TotalCores * 2)
    [] c.title = "Virtual RAM (GB)" ->
         /\ EqualsInt(c.numerator, args.gpu_vram_gb)
         /\ ApproxFrac(c.denominator, args.num_cells, 12000000)
    [] OTHER -> c.title = "RAM Channels"

C3_ScoredPairs ==
  /\ \A k \in 1..Len(calls) : calls[k].title = InputOrder[k] /\ PairAsClaimed(calls[k])
  /\ pc \in {"sort", "print", "done"} => Len(calls) = NumEstimators

\* the example of the claim: 4 channels at 2700 MT/s and 20 cores give the
\* bandwidth ratio 60.48 / 40 = 1.512
C3_Witness ==
  /\ pc = "done"
  /\ variant = "hardware_checker"
  /\ args.num_ram_channels = 4 /\ args.ram_speed_mts = 2700 /\ args.num_cpu_cores = 20
  /\ ApproxFrac(results[3].ratio, 1512, 1000)
  /\ results[3].mark = MarkSufficient

(***************************************************************************)
(* C7: the output of one call is all or nothing.  When all seven           *)
(* estimators succeed, exactly seven ranked lines are printed, one per     *)
(* resource, after at most one advisory; when an estimator fails, nothing  *)
(* has been printed at that moment, neither a ranked line nor the          *)
(* core-count advisory.                                                    *)
(***************************************************************************)
C7_AllOrNothing ==
  /\ pc = "done" =>
       /\ Len(ResultLines) = NumEstimators
       /\ {functions[j].title : j \in 1..Len(functions)}
            = {InputOrder[k] : k \in 1..NumEstimators}
       /\ ResultLines = [j \in 1..NumEstimators |-> Line(functions[j])]
       /\ Len(stdout) - NumEstimators \in {0, 1}
  /\ pc = "raised" => raised # "" /\ stdout = <<>>
  /\ raised # "" => pc = "raised"

\* an estimator has failed after another one had succeeded
C7_Witness == pc = "raised" /\ raised = "ZeroDivisionError" /\ i = 2 /\ Len(results) = 1

\* a profile within the data model's invariant: counts positive, capacities
\* and speeds not negative
ValidProfile ==
  /\ args.num_cells > 0
  /\ args.num_ram_channels > 0
  /\ args.num_cpu_cores > 0
  /\ args.num_processors > 0
  /\ args.ram_capacity_gb >= 0
  /\ args.ram_speed_mts >= 0
  /\ args.cpu_l3_cache_capacity_mb >= 0
  /\ args.gpu_vram_gb >= 0
  /\ ~args.cpu_speed_ghz.neg

(***************************************************************************)
(* C4: in every variant the RAM-channel estimator scores with actual = the *)
(* RAM channel count and required = total_cores / 4, so that the result's  *)
(* ratio is channel_count / (total_cores / 4).                             *)
(***************************************************************************)
C4_ChannelsActualOverRequired ==
  \A k \in 1..Len(calls) :
    calls[k].title = "RAM Channels" =>
      /\ EqualsInt(calls[k].numerator, args.num_ram_channels)
      /\ ApproxFrac(calls[k].denominator, TotalCores, 4)

(***************************************************************************)
(* C5: an input that makes a required-capacity denominator zero (zero RAM  *)
(* channels, zero cores, zero cells) ends the evaluation with an           *)
(* InvalidInput error: no raw division fault is propagated, and the run    *)
(* never completes with a zero or infinite ratio for that resource.        *)
(***************************************************************************)
ZeroRequiredInput ==
  args.num_ram_channels = 0 \/ TotalCores = 0 \/ args.num_cells = 0

C5_InvalidInputOnZeroRequired ==
  /\ raised \in {"", "InvalidInput"}
  /\ ZeroRequiredInput => pc \in {"estimate", "raised"}

(***************************************************************************)
(* C6: with a mesh cell count <= 0 the run is rejected before any of the   *)
(* seven estimators is invoked: no estimator runs, no ratio is computed    *)
(* and no line is printed.                                                 *)
(***************************************************************************)
C6_NonPositiveMeshRejected ==
  args.num_cells <= 0 => calls = <<>> /\ results = <<>> /\ stdout = <<>>

(***************************************************************************)
(* C8 as claimed: whenever the CPU-core estimator emits its advisory, the  *)
(* limit L it reports is the cell count at which the load per core reaches *)
(* 50,000 cells: L / total_cores = 50,000, up to rounding to an integer.   *)
(***************************************************************************)
AdvisoryOf(n) == AdvisoryPrefix \o DecStr(BFromInt(n))

CellsSquaredOverFloor ==
  BDivMod(BMul(BFromInt(Abs(args.num_cells)), BFromInt(Abs(args.num_cells))),
          BFromInt(50000 * TotalCores))[1]

C9_NoGpuRanksLast ==
  (pc = "done" /\ ValidProfile /\ args.gpu_vram_gb = 0)
    => functions[NumEstimators].title = "Virtual RAM (GB)"

(***************************************************************************)
(* C9 as amended: for a valid profile with gpu_vram_gb = 0 the GPU VRAM    *)
(* estimator does not fail; its result has required =                      *)
(* (cells / 1000000) / 12, ratio 0 (no ratio is lower) and the             *)
(* insufficient mark, and it ranks first, not last: it is printed before   *)
(* every result whose ratio is above 0, and only results that also have    *)
(* ratio 0 and come earlier in the list are printed before it.             *)
(***************************************************************************)
C9_NoGpuRanksFirst ==
  (ValidProfile /\ args.gpu_vram_gb = 0) =>
    /\ pc # "raised"
    /\ \A k \in 1..Len(results) : ~results[k].ratio.neg
    /\ \A k \in 1..Len(results) :
         results[k].title = "Virtual RAM (GB)" =>
           /\ IsZero(results[k].ratio)
           /\ results[k].mark = MarkInsufficient
           /\ ApproxFrac(calls[k].denominator, args.num_cells, 12000000)
    /\ \A j, k \in 1..Len(functions) :
         (functions[k].title = "Virtual RAM (GB)" /\ j < k)
           => /\ IsZero(functions[j].ratio)
              /\ InputIndex(functions[j].title) < NumEstimators
    /\ pc = "done" =>
         \E k \in 1..NumEstimators :
            /\ functions[k].title = "Virtual RAM (GB)"
            /\ ResultLines[k] = Line(functions[k])

\* a finished run without a GPU whose first line is the GPU VRAM line
C9_Witness ==
  /\ pc = "done"
  /\ ValidProfile
  /\ args.gpu_vram_gb = 0
  /\ functions[1].title = "Virtual RAM (GB)"
  /\ ~IsZero(functions[2].ratio)

(***************************************************************************)
(* C10: the two variants agree on everything that decides the ranking:     *)
(* for a valid profile, ofhc.py with one processor of c cores and          *)
(* hardware_checker.py with c cores give each of the seven resources the   *)
(* same ratio and the same mark, hence the same ranked order, and take the *)
(* same decision on the advisory.                                          *)
(***************************************************************************)
Ranking(fs) == [j \in 1..Len(fs) |-> <<fs[j].title, fs[j].ratio, fs[j].mark>>]

HwResults(a) == [k \in 1..NumEstimators |-> hw_functions(a, k).ret.value]

C10_VariantsAgree ==
  (pc = "done" /\ variant = "ofhc" /\ args.num_processors = 1 /\ ValidProfile)
    => /\ Ranking(results) = Ranking(HwResults(args))
       /\ Ranking(functions) = Ranking(sorted(HwResults(args)))
       /\ AdvisoryLines = hw_functions(args, 4).printed

====
